---------------------------- MODULE Spec2Model ----------------------------
(***************************************************************************)
(* Sliding-window listwise re-ranking (RankLLM): the window scheduler, the *)
(* per-window oracle step, the permutation parser and the merger, for one  *)
(* ranking and for a batch of rankings.                                    *)
(*                                                                         *)
(* Text is a sequence of one-character strings.  Python objects live in a  *)
(* heap (a sequence of Result values); a reference is an index into it, so *)
(* that copy.deepcopy and in-place mutation are told apart.                *)
(***************************************************************************)
EXTENDS Integers, Sequences, FiniteSets, TLC

(***************************************************************************)
(* Bounds of the model.                                                    *)
(***************************************************************************)
MaxHits == 3
MaxRankStart == 1
MaxWindowSize == 3
MaxStep == 3
MaxWideEnd == 8
MaxQueries == 2

(***************************************************************************)
(* Generic helpers on sequences.                                           *)
(***************************************************************************)
Range(s) == {s[i] : i \in 1..Len(s)}

Max(a, b) == IF a >= b THEN a ELSE b

Min(a, b) == IF a <= b THEN a ELSE b

RECURSIVE Concat(_)
Concat(ss) == IF ss = <<>> THEN <<>> ELSE Head(ss) \o Concat(Tail(ss))

\* s[i:j] of Python for 0 <= i, 0 <= j (0-based, half-open, clipped to the length).
Slice(s, i, j) == SubSeq(s, Min(i, Len(s)) + 1, Min(j, Len(s)))

(***************************************************************************)
(* Characters: str.isdigit, str.isalpha, str.isspace, ord, str(int), int.  *)
(***************************************************************************)
DigitChars == <<"0", "1", "2", "3", "4", "5", "6", "7", "8", "9">>

UpperChars == <<"A", "B", "C", "D", "E", "F", "G", "H", "I", "J", "K", "L", "M",
                "N", "O", "P", "Q", "R", "S", "T", "U", "V", "W", "X", "Y", "Z">>

LowerChars == <<"a", "b", "c", "d", "e", "f", "g", "h", "i", "j", "k", "l", "m",
                "n", "o", "p", "q", "r", "s", "t", "u", "v", "w", "x", "y", "z">>

IndexIn(chars, c) == CHOOSE i \in 1..Len(chars) : chars[i] = c

IsDigit(c) == c \in Range(DigitChars)

IsAlpha(c) == c \in Range(UpperChars) \cup Range(LowerChars)

IsSpace(c) == c \in {" ", "\n", "\t"}

\* ord(c) for a letter: ord('A') = 65, ord('a') = 97.
Ord(c) == IF c \in Range(UpperChars) THEN 64 + IndexIn(UpperChars, c)
          ELSE 96 + IndexIn(LowerChars, c)

\* ALPH_START_IDX = ord('A') - 1
ALPH_START_IDX == 64

RECURSIVE Str(_)
Str(n) == IF n < 10 THEN <<DigitChars[n + 1]>>
          ELSE Str(n \div 10) \o <<DigitChars[(n % 10) + 1]>>

RECURSIVE ToInt(_)
ToInt(tok) == IF tok = <<>> THEN 0
            ELSE 10 * ToInt(SubSeq(tok, 1, Len(tok) - 1))
                 + (IndexIn(DigitChars, tok[Len(tok)]) - 1)

(***************************************************************************)
(* str.index, str.replace(tag, ''), str.strip, str.split.                  *)
(***************************************************************************)
StartsAt(s, tag, i) == /\ i + Len(tag) - 1 <= Len(s)
                       /\ SubSeq(s, i, i + Len(tag) - 1) = tag

Contains(s, tag) == \E i \in 1..Len(s) : StartsAt(s, tag, i)

\* 0-based index of the first occurrence (the caller has checked Contains).
Index(s, tag) == (CHOOSE i \in 1..Len(s) :
                      /\ StartsAt(s, tag, i)
                      /\ \A k \in 1..(i - 1) : ~StartsAt(s, tag, k)) - 1

RECURSIVE RemoveAll(_, _)
RemoveAll(s, tag) ==
    IF s = <<>> THEN <<>>
    ELSE IF StartsAt(s, tag, 1)
         THEN RemoveAll(SubSeq(s, Len(tag) + 1, Len(s)), tag)
         ELSE <<Head(s)>> \o RemoveAll(Tail(s), tag)

RECURSIVE LStrip(_)
LStrip(s) == IF s # <<>> /\ IsSpace(Head(s)) THEN LStrip(Tail(s)) ELSE s

RECURSIVE RStrip(_)
RStrip(s) == IF s # <<>> /\ IsSpace(s[Len(s)])
             THEN RStrip(SubSeq(s, 1, Len(s) - 1)) ELSE s

Strip(s) == RStrip(LStrip(s))

RECURSIVE TakeWord(_)
TakeWord(s) == IF s = <<>> \/ IsSpace(Head(s)) THEN <<>>
               ELSE <<Head(s)>> \o TakeWord(Tail(s))

RECURSIVE Split(_)
Split(s) ==
    LET t == LStrip(s)
    IN  IF t = <<>> THEN <<>>
        ELSE LET w == TakeWord(t)
             IN  <<w>> \o Split(SubSeq(t, Len(w) + 1, Len(t)))

(***************************************************************************)
(* re.findall of ranked_list_pattern, a bracketed number followed by any   *)
(* number of (spaces, >, spaces, bracketed number), with spaces allowed on *)
(* both sides.  Positions are 1-based; a position past the end reads as no *)
(* character.                                                              *)
(***************************************************************************)
CharAt(s, i) == IF i >= 1 /\ i <= Len(s) THEN s[i] ELSE ""

RECURSIVE SkipSpaces(_, _)
SkipSpaces(s, i) == IF IsSpace(CharAt(s, i)) THEN SkipSpaces(s, i + 1) ELSE i

RECURSIVE SkipDigits(_, _)
SkipDigits(s, i) == IF IsDigit(CharAt(s, i)) THEN SkipDigits(s, i + 1) ELSE i

\* One bracketed number at i: the position after it, or 0 when it does not match.
MatchItem(s, i) ==
    IF CharAt(s, i) = "[" /\ IsDigit(CharAt(s, i + 1))
    THEN LET j == SkipDigits(s, i + 1)
         IN  IF CharAt(s, j) = "]" THEN j + 1 ELSE 0
    ELSE 0

\* The greedy repetition from i: the position after the last repetition.
RECURSIVE MatchTail(_, _)
MatchTail(s, i) ==
    LET j == SkipSpaces(s, i)
    IN  IF CharAt(s, j) = ">"
        THEN LET m == MatchItem(s, SkipSpaces(s, j + 1))
             IN  IF m # 0 THEN MatchTail(s, m) ELSE i
        ELSE i

\* The matches' group 1, left to right, scanning from position p.
RECURSIVE FindAll(_, _)
FindAll(s, p) ==
    IF p > Len(s) THEN <<>>
    ELSE LET gs == SkipSpaces(s, p)
             m  == MatchItem(s, gs)
         IN  IF m = 0 THEN FindAll(s, p + 1)
             ELSE LET ge == MatchTail(s, m)
                  IN  <<SubSeq(s, gs, ge - 1)>> \o FindAll(s, SkipSpaces(s, ge))

end_of_reasoning_tag == <<"<", "/", "t", "h", "i", "n", "k", ">">>

start_of_answer_tag == <<"<", "a", "n", "s", "w", "e", "r", ">">>

end_of_answer_tag == <<"<", "/", "a", "n", "s", "w", "e", "r", ">">>

\* The first candidate with a separator in it, or <<>> (None) when there is none.
RECURSIVE first_correct_match(_)
first_correct_match(match) ==
    IF match = <<>> THEN <<>>
    ELSE IF ">" \in Range(Head(match)) THEN Head(match)
         ELSE first_correct_match(Tail(match))

parse_reasoning_permutation(response) ==
    LET inner ==
            IF Contains(response, end_of_answer_tag)
               /\ Contains(response, end_of_reasoning_tag)
            THEN FindAll(Strip(RemoveAll(
                     Slice(response, Index(response, end_of_reasoning_tag),
                           Index(response, end_of_answer_tag)),
                     start_of_answer_tag)), 1)
            ELSE <<>>
    IN  IF inner # <<>> THEN [text |-> Head(inner), matched |-> TRUE]
        ELSE LET cand == first_correct_match(FindAll(response, 1))
             IN  IF cand # <<>> THEN [text |-> cand, matched |-> TRUE]
                 ELSE [text |-> response, matched |-> FALSE]

CleanAlphaChar(c) == IF ~IsAlpha(c) THEN <<" ">> ELSE Str(Ord(c) - ALPH_START_IDX)

CleanDigitChar(c) == IF ~IsDigit(c) THEN <<" ">> ELSE <<c>>

\* rerank_type stands for self._rerank_type.
clean_response(response, use_alpha, rerank_type) ==
    LET r == IF rerank_type = "code_reasoning"
             THEN parse_reasoning_permutation(response).text
             ELSE response
    IN  IF use_alpha
        THEN Strip(Concat([i \in 1..Len(r) |-> CleanAlphaChar(r[i])]))
        ELSE Strip(Concat([i \in 1..Len(r) |-> CleanDigitChar(r[i])]))

RECURSIVE remove_duplicate(_)
remove_duplicate(response) ==
    IF response = <<>> THEN <<>>
    ELSE LET init == remove_duplicate(SubSeq(response, 1, Len(response) - 1))
             c    == response[Len(response)]
         IN  IF c \in Range(init) THEN init ELSE Append(init, c)

(***************************************************************************)
(* Results.  A hit is a record with a docid (its payload) and, optionally, *)
(* rank and score fields; ranking_exec_summary is None or a list.          *)
(***************************************************************************)
None == [none |-> TRUE, list |-> <<>>]

List(l) == [none |-> FALSE, list |-> l]

RankingExecInfo(prompt, response, input_token_count, output_token_count) ==
    [prompt |-> prompt, response |-> response,
     input_token_count |-> input_token_count,
     output_token_count |-> output_token_count]

\* The prompt renderer (external): the window it was rendered for and the
\* payloads it shows, with its token count.
create_prompt(result, use_alpha, rank_start, rank_end) ==
    LET cut == Slice(result.hits, rank_start, rank_end)
    IN  [prompt |-> [use_alpha |-> use_alpha, rank_start |-> rank_start,
                     rank_end |-> rank_end,
                     docs |-> [i \in 1..Len(cut) |-> cut[i].docid]],
         in_token_count |-> Len(cut)]

\* The oracle (external) answers with a text and its token count.
run_llm(text) == [permutation |-> text, out_token_count |-> Len(text)]

\* Variant of MovedHit: the copied hit keeps its own rank and score.
MovedHitOwnFields(cut_range, j, x) == cut_range[x + 1]

\* j, x are 0-based: the hit written at window position j when every field
\* lookup succeeds (lines 453-457).
MovedHit(cut_range, j, x) ==
    LET h1 == cut_range[x + 1]
        h2 == IF "rank" \in DOMAIN h1
              THEN [h1 EXCEPT !.rank = cut_range[j + 1].rank] ELSE h1
    IN  IF "score" \in DOMAIN h2
        THEN [h2 EXCEPT !.score = cut_range[j + 1].score] ELSE h2

\* cut_range[j]["rank"] or cut_range[j]["score"] raises KeyError at position j.
RaisesAt(cut_range, j, x) ==
    \/ "rank" \in DOMAIN cut_range[x + 1] /\ "rank" \notin DOMAIN cut_range[j + 1]
    \/ "score" \in DOMAIN cut_range[x + 1] /\ "score" \notin DOMAIN cut_range[j + 1]

\* The hit left at position j by the iteration that raised: the copy is
\* stored first, the rank is assigned when that lookup succeeded.
PartialHit(cut_range, j, x) ==
    LET h1 == cut_range[x + 1]
    IN  IF "rank" \in DOMAIN h1 /\ "rank" \in DOMAIN cut_range[j + 1]
        THEN [h1 EXCEPT !.rank = cut_range[j + 1].rank] ELSE h1

\* Variant of MergeOrder: the indices the oracle did not name are not appended.
MergeOrderNoFill(indices, n) ==
    LET response == remove_duplicate([i \in 1..Len(indices) |-> indices[i] - 1])
    IN  SelectSeq(response, LAMBDA ss : ss \in 0..(n - 1))

\* Variant of MergeOrder: the 1-based indices are used as they are.
MergeOrderOneBased(indices, n) ==
    LET response == remove_duplicate(indices)
        original_rank == [i \in 1..n |-> i - 1]
        kept == SelectSeq(response, LAMBDA ss : ss \in Range(original_rank))
    IN  kept \o SelectSeq(original_rank, LAMBDA tt : tt \notin Range(kept))

\* Lines 446-451: the 0-based order applied to a slice of n hits.
MergeOrder(indices, n) ==
    LET response == remove_duplicate([i \in 1..Len(indices) |-> indices[i] - 1])
        original_rank == [i \in 1..n |-> i - 1]
        kept == SelectSeq(response, LAMBDA ss : ss \in Range(original_rank))
    IN  kept \o SelectSeq(original_rank, LAMBDA tt : tt \notin Range(kept))

ParsedIndices(permutation, use_alpha, rerank_type) ==
    LET words == Split(clean_response(permutation, use_alpha, rerank_type))
    IN  [i \in 1..Len(words) |-> ToInt(words[i])]

\* The positions j at which cut_range[j]["rank"] or ["score"] raises.
KeyErrors(cut_range, response) ==
    {j \in 0..(Len(response) - 1) : RaisesAt(cut_range, j, response[j + 1])}

\* The position at which the loop of line 452 ends: the first that raises,
\* else the end of response.
LoopEnd(bad, m) ==
    IF bad = {} THEN m ELSE CHOOSE j \in bad : \A k \in bad : j <= k

\* Lines 452-457: result.hits after the loop ran up to position stop.
WrittenHits(hits, cut_range, response, stop, rank_start) ==
    [p \in 1..Len(hits) |->
        IF p - 1 - rank_start < 0 \/ p - 1 - rank_start >= Len(response)
           \/ p - 1 - rank_start > stop
        THEN hits[p]
        ELSE IF p - 1 - rank_start = stop
        THEN PartialHit(cut_range, stop, response[stop + 1])
        ELSE MovedHit(cut_range, p - 1 - rank_start, response[p - rank_start])]

WriteBack(result, cut_range, response, bad, rank_start) ==
    [result |-> [result EXCEPT !.hits =
                    WrittenHits(result.hits, cut_range, response,
                                LoopEnd(bad, Len(response)), rank_start)],
     raised |-> bad # {}]

ReorderSlice(result, cut_range, response, rank_start) ==
    WriteBack(result, cut_range, response, KeyErrors(cut_range, response),
              rank_start)

\* Lines 445-458; the loop of line 452 runs over the positions of response.
receive_permutation(result, permutation, rank_start, rank_end, use_alpha, rerank_type) ==
    ReorderSlice(result, Slice(result.hits, rank_start, rank_end),
                 MergeOrder(ParsedIndices(permutation, use_alpha, rerank_type),
                            Len(Slice(result.hits, rank_start, rank_end))),
                 rank_start)

\* Variant of AppendExecInfo: the summary is started afresh at every window.
ReplaceExecInfo(result, info) ==
    [result EXCEPT !.ranking_exec_summary = List(<<info>>)]

\* Lines 159-164: the trace entry is appended before the merge.
AppendExecInfo(result, info) ==
    [result EXCEPT !.ranking_exec_summary =
        List(Append(IF result.ranking_exec_summary.none THEN <<>>
                    ELSE result.ranking_exec_summary.list, info))]

permutation_pipeline(result, text, use_alpha, rank_start, rank_end, rerank_type) ==
    LET p == create_prompt(result, use_alpha, rank_start, rank_end)
        o == run_llm(text)
        info == RankingExecInfo(p.prompt, o.permutation, p.in_token_count,
                                o.out_token_count)
    IN  receive_permutation(AppendExecInfo(result, info), o.permutation,
                            rank_start, rank_end, use_alpha, rerank_type)

\* Lines 187-203: zip(results, prompts) pairs the first m = min(len(results),
\* len(prompts)) rankings with their prompts; a KeyError ends the loop.
RECURSIVE PipelineBatchedFrom(_, _, _, _, _, _, _, _, _)
\* The rest of the loop once ranking i has been through the pipeline.
PipelineBatchedAfter(h, out, refs, texts, m, i, use_alpha, rank_start, rank_end, rerank_type) ==
    IF out.raised
    THEN [heap |-> [h EXCEPT ![refs[i]] = out.result], raised |-> TRUE]
    ELSE PipelineBatchedFrom([h EXCEPT ![refs[i]] = out.result], refs, texts, m,
                             i + 1, use_alpha, rank_start, rank_end, rerank_type)

PipelineBatchedFrom(h, refs, texts, m, i, use_alpha, rank_start, rank_end, rerank_type) ==
    IF i > m THEN [heap |-> h, raised |-> FALSE]
    ELSE PipelineBatchedAfter(h, permutation_pipeline(h[refs[i]], texts[i], use_alpha,
                                                     rank_start, rank_end, rerank_type),
                              refs, texts, m, i, use_alpha, rank_start, rank_end,
                              rerank_type)

\* Variant of permutation_pipeline_batched: every ranking is given the first
\* answer of the batch.
permutation_pipeline_batched_first(h, refs, texts, nprompts, use_alpha, rank_start, rank_end, rerank_type) ==
    PipelineBatchedFrom(h, refs, [i \in DOMAIN texts |-> texts[1]],
                        Min(Len(refs), nprompts), 1, use_alpha,
                        rank_start, rank_end, rerank_type)

permutation_pipeline_batched(h, refs, texts, nprompts, use_alpha, rank_start, rank_end, rerank_type) ==
    PipelineBatchedFrom(h, refs, texts, Min(Len(refs), nprompts), 1, use_alpha,
                        rank_start, rank_end, rerank_type)

\* Variant of deepcopy: the same object is handed back.
deepcopy_alias(h, ref) == [heap |-> h, ref |-> ref]

\* copy.deepcopy(result): a new object with the same value.
deepcopy(h, ref) == [heap |-> Append(h, h[ref]), ref |-> Len(h) + 1]

\* [copy.deepcopy(result) for result in retrieved_results]
RECURSIVE deepcopy_all(_, _)
deepcopy_all(h, refs) ==
    IF refs = <<>> THEN [heap |-> h, refs |-> <<>>]
    ELSE LET c == deepcopy(h, Head(refs))
             r == deepcopy_all(c.heap, Tail(refs))
         IN  [heap |-> r.heap, refs |-> <<c.ref>> \o r.refs]

\* Variant of LoopCond: the guard against a redundant window is missing.
LoopCondEndOnly(start_pos, end_pos, rank_start, step) == end_pos > rank_start

\* Lines 235 and 277: the loop guard.
LoopCond(start_pos, end_pos, rank_start, step) ==
    end_pos > rank_start /\ start_pos + step # rank_start

(***************************************************************************)
(* State.                                                                  *)
(*   heap         the Result objects; heap[1..Len(input0)] are the caller's*)
(*   input0       the caller's objects as they were before any call        *)
(*   args         rank_start, rank_end, window_size, step, use_alpha       *)
(*   rerank_type  self._rerank_type                                        *)
(*   runs         the caller's calls, made one after the other: entry      *)
(*                point, argument, private copies, loop variables, pc and  *)
(*                the oracle calls made (window and number of prompts)     *)
(*   oracle       oracle[r][w]: the oracle's answer for the w-th window of *)
(*                the caller's ranking r, fixed once it has been given     *)
(***************************************************************************)
VARIABLES heap, input0, args, rerank_type, runs, oracle

vars == <<heap, input0, args, rerank_type, runs, oracle>>

Finished(k) == runs[k].pc \in {"done", "failed"}

\* Single-threaded caller: run k is in progress when all before it are over.
Current(k) == /\ k \in 1..Len(runs)
              /\ ~Finished(k)
              /\ \A j \in 1..(k - 1) : Finished(j)

Call(entry, refs) ==
    [entry |-> entry, retrieved |-> refs, rerank |-> <<>>, start_pos |-> 0,
     end_pos |-> 0, pc |-> "pending", calls |-> <<>>]

\* The answer for window w of ranking r is text: either already fixed, or
\* fixed now.
Answers(r, w, text) == w \in DOMAIN oracle[r] => oracle[r][w] = text

Record(orc, r, w, text) == [orc EXCEPT ![r] = (w :> text) @@ @]

sliding_windows(k) ==
    /\ Current(k)
    /\ runs[k].entry = "sliding_windows"
    /\ runs[k].pc = "pending"
    /\ LET c == deepcopy(heap, runs[k].retrieved[1])
       IN  /\ heap' = c.heap
           /\ runs' = [runs EXCEPT ![k] =
                  [@ EXCEPT !.rerank = <<c.ref>>,
                            !.end_pos = args.rank_end,
                            !.start_pos = args.rank_end - args.window_size,
                            !.pc = "loop"]]
    /\ UNCHANGED <<input0, args, rerank_type, oracle>>

\* One iteration of the loop of lines 235-241.
SlidingWindowsIteration(k, Texts) ==
    /\ Current(k)
    /\ runs[k].entry = "sliding_windows"
    /\ runs[k].pc = "loop"
    /\ LoopCond(runs[k].start_pos, runs[k].end_pos, args.rank_start, args.step)
    /\ LET start == Max(runs[k].start_pos, args.rank_start)
           end   == runs[k].end_pos
           ref   == runs[k].rerank[1]
           r     == runs[k].retrieved[1]
           w     == Len(runs[k].calls) + 1
       IN  \E text \in Texts :
             /\ Answers(r, w, text)
             /\ LET out == permutation_pipeline(heap[ref], text, args.use_alpha,
                                                start, end, rerank_type)
                IN  /\ heap' = [heap EXCEPT ![ref] = out.result]
                    /\ oracle' = Record(oracle, r, w, text)
                    /\ runs' = [runs EXCEPT ![k] =
                         [@ EXCEPT !.calls = Append(@, [rank_start |-> start,
                                                        rank_end |-> end,
                                                        prompts |-> 1]),
                                   !.start_pos = IF out.raised THEN start
                                                 ELSE start - args.step,
                                   !.end_pos = IF out.raised THEN end
                                               ELSE end - args.step,
                                   !.pc = IF out.raised THEN "failed" ELSE "loop"]]
    /\ UNCHANGED <<input0, args, rerank_type>>

\* run_llm / run_llm_batched raises: the exception leaves the entry point.
OracleFailure(k) ==
    /\ Current(k)
    /\ runs[k].pc = "loop"
    /\ LoopCond(runs[k].start_pos, runs[k].end_pos, args.rank_start, args.step)
    /\ runs' = [runs EXCEPT ![k] =
           [@ EXCEPT !.start_pos = Max(@, args.rank_start), !.pc = "failed"]]
    /\ UNCHANGED <<heap, input0, args, rerank_type, oracle>>

\* The loop guard is false: the private copies are returned.
Return(k) ==
    /\ Current(k)
    /\ runs[k].pc = "loop"
    /\ ~LoopCond(runs[k].start_pos, runs[k].end_pos, args.rank_start, args.step)
    /\ runs' = [runs EXCEPT ![k] = [@ EXCEPT !.pc = "done"]]
    /\ UNCHANGED <<heap, input0, args, rerank_type, oracle>>

sliding_windows_batched(k) ==
    /\ Current(k)
    /\ runs[k].entry = "sliding_windows_batched"
    /\ runs[k].pc = "pending"
    /\ LET c == deepcopy_all(heap, runs[k].retrieved)
       IN  /\ heap' = c.heap
           /\ runs' = [runs EXCEPT ![k] =
                  [@ EXCEPT !.rerank = c.refs,
                            !.end_pos = args.rank_end,
                            !.start_pos = args.rank_end - args.window_size,
                            !.pc = "loop"]]
    /\ UNCHANGED <<input0, args, rerank_type, oracle>>

\* One iteration of the loop of lines 277-283; create_prompt_batched renders
\* nprompts = n + d prompts for the n rankings (d = 0 when the renderer keeps
\* its contract), the oracle answers each of them.
SlidingWindowsBatchedIteration(k, Texts, Miscounts) ==
    /\ Current(k)
    /\ runs[k].entry = "sliding_windows_batched"
    /\ runs[k].pc = "loop"
    /\ LoopCond(runs[k].start_pos, runs[k].end_pos, args.rank_start, args.step)
    /\ LET start == Max(runs[k].start_pos, args.rank_start)
           end   == runs[k].end_pos
           refs  == runs[k].rerank
           rs    == runs[k].retrieved
           n     == Len(refs)
           w     == Len(runs[k].calls) + 1
       IN  \E nprompts \in {n + d : d \in Miscounts} \cap Nat :
           \E texts \in [1..Min(n, nprompts) -> Texts] :
             /\ \A i \in DOMAIN texts : Answers(rs[i], w, texts[i])
             /\ LET out == permutation_pipeline_batched(heap, refs, texts, nprompts,
                               args.use_alpha, start, end, rerank_type)
                IN  /\ heap' = out.heap
                    /\ oracle' = [r \in DOMAIN oracle |->
                                    IF \E i \in DOMAIN texts : rs[i] = r
                                    THEN (w :> texts[CHOOSE i \in DOMAIN texts : rs[i] = r])
                                         @@ oracle[r]
                                    ELSE oracle[r]]
                    /\ runs' = [runs EXCEPT ![k] =
                         [@ EXCEPT !.calls = Append(@, [rank_start |-> start,
                                                        rank_end |-> end,
                                                        prompts |-> nprompts]),
                                   !.start_pos = IF out.raised THEN start
                                                 ELSE start - args.step,
                                   !.end_pos = IF out.raised THEN end
                                               ELSE end - args.step,
                                   !.pc = IF out.raised THEN "failed" ELSE "loop"]]
    /\ UNCHANGED <<input0, args, rerank_type>>

(***************************************************************************)
(* Inputs: oracle texts, rankings, arguments.                              *)
(***************************************************************************)
Item(k) == <<"[">> \o Str(k) \o <<"]">>

RECURSIVE RankedList(_)
RankedList(ks) ==
    IF Len(ks) = 1 THEN Item(ks[1])
    ELSE Item(ks[1]) \o <<" ", ">", " ">> \o RankedList(Tail(ks))

CoreTexts ==
    { <<>>, RankedList(<<2, 2, 1>>), RankedList(<<5, 1>>), RankedList(<<3, 1, 2>>) }

ProseTexts ==
    { Item(2),
      <<"n", "o">>,
      <<"3", ":", " ">> \o RankedList(<<2, 1>>),
      end_of_reasoning_tag \o start_of_answer_tag \o RankedList(<<3, 2>>)
          \o end_of_answer_tag,
      RankedList(<<1, 2>>) \o end_of_reasoning_tag \o start_of_answer_tag
          \o Item(3) \o end_of_answer_tag,
      end_of_reasoning_tag \o start_of_answer_tag \o <<"n", "o">>
          \o end_of_answer_tag \o Item(2) }

AlphaTexts ==
    { <<>>, <<"[", "C", "]", " ", ">", " ", "[", "A", "]">>,
      <<"[", "B", "]", ">", "[", "B", "]", ">", "[", "E", "]">>, <<"b", ",", "A", "B">> }

Hit(i, d, shape) ==
    IF shape = "bare" \/ (shape = "mixed" /\ i = 1) THEN [docid |-> d]
    ELSE [docid |-> d, rank |-> i, score |-> 100 - i]

Hits(n, shape) ==
    [i \in 1..n |-> Hit(i, IF shape = "twins" THEN (i + 1) \div 2 ELSE i, shape)]

OldInfo == RankingExecInfo([use_alpha |-> FALSE, rank_start |-> 0, rank_end |-> 0,
                            docs |-> <<>>], <<>>, 0, 0)

Rankings(Lengths, Shapes) ==
    { [hits |-> Hits(n, shape), ranking_exec_summary |-> t] :
        n \in Lengths, shape \in Shapes, t \in {None, List(<<OldInfo>>)} }

Args(Starts, Ends, Sizes, Steps, Alphas) ==
    { a \in [rank_start : Starts, rank_end : Ends, window_size : Sizes,
             step : Steps, use_alpha : Alphas] : a.rank_start < a.rank_end }

InitWith(Heaps, ArgSet, Types, calls) ==
    /\ heap \in Heaps
    /\ input0 = heap
    /\ args \in ArgSet
    /\ rerank_type \in Types
    /\ runs = calls
    /\ oracle = [r \in 1..Len(heap) |-> <<>>]

(***************************************************************************)
(* Spec: one call of sliding_windows on one ranking.                       *)
(***************************************************************************)
Init ==
    InitWith({<<r>> : r \in Rankings({MaxHits}, {"full", "bare", "mixed", "twins"})},
             Args(0..MaxRankStart, 1..(MaxHits + 1), 1..MaxWindowSize, 1..MaxStep,
                  BOOLEAN),
             {"code", "code_reasoning"},
             <<Call("sliding_windows", <<1>>)>>)

Texts == IF args.use_alpha THEN AlphaTexts ELSE CoreTexts

Next ==
    \/ \E k \in 1..Len(runs) : sliding_windows(k)
    \/ \E k \in 1..Len(runs) : SlidingWindowsIteration(k, Texts)
    \/ \E k \in 1..Len(runs) : OracleFailure(k)
    \/ \E k \in 1..Len(runs) : Return(k)

Spec == Init /\ [][Next]_vars

(***************************************************************************)
(* SpecWindows: one call of sliding_windows over a wider range of window   *)
(* parameters, on a ranking of rank_end hits, and on the parameters        *)
(* window_size=20, step=10, rank_start=0, rank_end=100.                    *)
(***************************************************************************)
ExampleArgs == [rank_start |-> 0, rank_end |-> 100, window_size |-> 20,
                step |-> 10, use_alpha |-> FALSE]

FewTexts == { <<>>, RankedList(<<2, 1>>) }

InitWindows ==
    /\ args \in Args(0..(MaxRankStart + 1), 1..MaxWideEnd, 1..(MaxWindowSize + 1),
                     1..(MaxStep + 1), {FALSE}) \cup {ExampleArgs}
    /\ heap = <<[hits |-> Hits(args.rank_end, "full"), ranking_exec_summary |-> None]>>
    /\ input0 = heap
    /\ rerank_type = "code"
    /\ runs = <<Call("sliding_windows", <<1>>)>>
    /\ oracle = [r \in 1..Len(heap) |-> <<>>]

NextWindows ==
    \/ \E k \in 1..Len(runs) : sliding_windows(k)
    \/ \E k \in 1..Len(runs) : SlidingWindowsIteration(k, FewTexts)
    \/ \E k \in 1..Len(runs) : OracleFailure(k)
    \/ \E k \in 1..Len(runs) : Return(k)

SpecWindows == InitWindows /\ [][NextWindows]_vars

(***************************************************************************)
(* SpecParse: one call of sliding_windows with large windows and the whole *)
(* range of oracle texts, with and without the reasoning parser.           *)
(***************************************************************************)
InitParse ==
    InitWith({<<r>> : r \in Rankings({MaxHits}, {"full", "bare", "mixed", "twins"})},
             Args(0..MaxRankStart, 1..(MaxHits + 1),
                  (MaxWindowSize - 1)..MaxWindowSize, {MaxStep}, BOOLEAN),
             {"code", "code_reasoning"},
             <<Call("sliding_windows", <<1>>)>>)

AllTexts == IF args.use_alpha THEN AlphaTexts ELSE CoreTexts \cup ProseTexts

NextParse ==
    \/ \E k \in 1..Len(runs) : sliding_windows(k)
    \/ \E k \in 1..Len(runs) : SlidingWindowsIteration(k, AllTexts)
    \/ \E k \in 1..Len(runs) : OracleFailure(k)
    \/ \E k \in 1..Len(runs) : Return(k)

SpecParse == InitParse /\ [][NextParse]_vars

(***************************************************************************)
(* SpecBatch: the caller runs sliding_windows_batched on two rankings of   *)
(* different lengths, then sliding_windows on each of the two alone; the   *)
(* oracle answers a ranking's w-th window the same way in both.            *)
(***************************************************************************)
BatchHeaps ==
    { <<[hits |-> Hits(MaxHits, shape), ranking_exec_summary |-> None],
        [hits |-> Hits(MaxHits - 1, "full"), ranking_exec_summary |-> t]>> :
        shape \in {"full", "mixed"}, t \in {None, List(<<OldInfo>>)} }

BatchArgs == Args(0..MaxRankStart, (MaxHits - 1)..(MaxHits + 1), 2..MaxWindowSize,
                  1..MaxStep, {FALSE})

BatchTexts == { RankedList(<<2, 2, 1>>), RankedList(<<3, 1, 2>>) }

InitBatch ==
    InitWith(BatchHeaps, BatchArgs, {"code"},
             <<Call("sliding_windows_batched", <<1, 2>>),
               Call("sliding_windows", <<1>>),
               Call("sliding_windows", <<2>>)>>)

NextBatch ==
    \/ \E k \in 1..Len(runs) : sliding_windows_batched(k)
    \/ \E k \in 1..Len(runs) : SlidingWindowsBatchedIteration(k, BatchTexts, {0})
    \/ \E k \in 1..Len(runs) : sliding_windows(k)
    \/ \E k \in 1..Len(runs) : SlidingWindowsIteration(k, BatchTexts)
    \/ \E k \in 1..Len(runs) : OracleFailure(k)
    \/ \E k \in 1..Len(runs) : Return(k)

SpecBatch == InitBatch /\ [][NextBatch]_vars

(***************************************************************************)
(* SpecMisaligned: sliding_windows_batched with a prompt renderer that may *)
(* return one prompt too few or too many.                                  *)
(***************************************************************************)
InitMisaligned ==
    InitWith(BatchHeaps, BatchArgs, {"code"},
             <<Call("sliding_windows_batched", <<1, 2>>)>>)

NextMisaligned ==
    \/ \E k \in 1..Len(runs) : sliding_windows_batched(k)
    \/ \E k \in 1..Len(runs) : SlidingWindowsBatchedIteration(k, BatchTexts, {-1, 0, 1})
    \/ \E k \in 1..Len(runs) : OracleFailure(k)
    \/ \E k \in 1..Len(runs) : Return(k)

SpecMisaligned == InitMisaligned /\ [][NextMisaligned]_vars

(***************************************************************************)
(* SpecCost: the caller asks get_ranking_cost_upperbound for an estimate   *)
(* and then runs sliding_windows with the same window parameters.          *)
(* Python's true division is kept exact: a quotient is a pair num / den    *)
(* with den > 0.                                                           *)
(***************************************************************************)
Quotient(a, b) == [num |-> a, den |-> b]

PlusInt(q, n) == [num |-> q.num + n * q.den, den |-> q.den]

TimesInt(q, n) == [num |-> q.num * n, den |-> q.den]

Plus(p, q) == [num |-> p.num * q.den + q.num * p.den, den |-> p.den * q.den]

Over(q, n) == [num |-> q.num, den |-> q.den * n]

\* q == n, for an integer n.
EqualsInt(q, n) == q.num = n * q.den

\* Line 303.
num_promt(rank_start, rank_end, window_size, step) ==
    PlusInt(Quotient(rank_end - rank_start - window_size, step), 1)

\* Lines 303-312; llm holds what the subclass supplies: context_size,
\* num_output_tokens and the two prices of cost_per_1k_token.
RankingCostUpperbound(n, num_q, llm) ==
    [num_promt |-> n,
     cost |-> Over(Plus(TimesInt(n, num_q * (llm.context_size - llm.num_output_tokens)
                                    * llm.input_price),
                        TimesInt(n, num_q * llm.num_output_tokens * llm.output_price)),
                   1000),
     tokens |-> Plus(TimesInt(n, num_q * (llm.context_size - llm.num_output_tokens)),
                     TimesInt(n, num_q * llm.num_output_tokens))]

CostCall(num_q, llm) ==
    [entry |-> "get_ranking_cost_upperbound", pc |-> "pending", num_q |-> num_q,
     llm |-> llm, calls |-> <<>>]

get_ranking_cost_upperbound(k) ==
    /\ Current(k)
    /\ runs[k].entry = "get_ranking_cost_upperbound"
    /\ runs[k].pc = "pending"
    /\ runs' = [runs EXCEPT ![k] =
           [entry |-> "get_ranking_cost_upperbound", pc |-> "done", calls |-> <<>>,
            returned |-> RankingCostUpperbound(
                             num_promt(args.rank_start, args.rank_end,
                                       args.window_size, args.step),
                             runs[k].num_q, runs[k].llm)]]
    /\ UNCHANGED <<heap, input0, args, rerank_type, oracle>>

Llms == { [context_size |-> c, num_output_tokens |-> 1, input_price |-> 3,
           output_price |-> 6] : c \in {2, 4} }

InitCost ==
    /\ args \in Args(0..(MaxRankStart + 1), 1..MaxWideEnd, 1..(MaxWindowSize + 1),
                     1..(MaxStep + 1), {FALSE}) \cup {ExampleArgs}
    /\ heap = <<[hits |-> Hits(args.rank_end, "full"), ranking_exec_summary |-> None]>>
    /\ input0 = heap
    /\ rerank_type = "code"
    /\ \E num_q \in 1..MaxQueries, llm \in Llms :
          runs = <<CostCall(num_q, llm), Call("sliding_windows", <<1>>)>>
    /\ oracle = [r \in 1..Len(heap) |-> <<>>]

NextCost ==
    \/ \E k \in 1..Len(runs) : get_ranking_cost_upperbound(k)
    \/ \E k \in 1..Len(runs) : sliding_windows(k)
    \/ \E k \in 1..Len(runs) : SlidingWindowsIteration(k, FewTexts)
    \/ \E k \in 1..Len(runs) : OracleFailure(k)
    \/ \E k \in 1..Len(runs) : Return(k)

SpecCost == InitCost /\ [][NextCost]_vars

(***************************************************************************)
(* Properties.  For run k and the i-th ranking of its argument:            *)
(***************************************************************************)
Started(k) == runs[k].pc # "pending"

Alive(k) == runs[k].pc \in {"loop", "done"}

Reranked(k, i) == heap[runs[k].rerank[i]]

Original(k, i) == input0[runs[k].retrieved[i]]

\* What moves with a hit: everything but the values of rank and score.
Payload(h) == <<h.docid, DOMAIN h>>

Count(hits, p) == Cardinality({i \in 1..Len(hits) : Payload(hits[i]) = p})

SamePayloads(hs1, hs2) ==
    \A p \in {Payload(hs1[i]) : i \in 1..Len(hs1)}
             \cup {Payload(hs2[i]) : i \in 1..Len(hs2)} :
        Count(hs1, p) = Count(hs2, p)

\* C1: after every window processed (the run has not been aborted by an
\* exception), the ranking has as many hits as the caller's input, the same
\* multiset of payloads, and every position outside [rank_start, rank_end)
\* holds the hit it held originally.
C1_HitSetInvariant ==
    \A k \in 1..Len(runs) : Alive(k) =>
        \A i \in 1..Len(runs[k].rerank) :
            LET now == Reranked(k, i).hits
                was == Original(k, i).hits
            IN  /\ Len(now) = Len(was)
                /\ SamePayloads(now, was)
                /\ \A p \in 1..Len(was) :
                       (p - 1 < args.rank_start \/ p - 1 >= args.rank_end)
                           => now[p] = was[p]

\* A run of at least two windows has returned, the oracle answered the first
\* window with a duplicated index, and the hits are no longer in input order.
C1_Witness ==
    /\ runs[1].pc = "done"
    /\ Len(runs[1].calls) >= 2
    /\ oracle[1][1] = RankedList(<<2, 2, 1>>)
    /\ args.rank_start = 1
    /\ Reranked(1, 1).hits # Original(1, 1).hits

HasRankAndScore(hits) ==
    \A p \in 1..Len(hits) : {"rank", "score"} \subseteq DOMAIN hits[p]

\* C8: when every hit carries rank and score, the rank and the score found at
\* each position after any number of windows are those the position held in
\* the caller's input.
C8_RankScoreTrackPosition ==
    \A k \in 1..Len(runs) : Started(k) =>
        \A i \in 1..Len(runs[k].rerank) :
            HasRankAndScore(Original(k, i).hits) =>
                \A p \in 1..Len(Original(k, i).hits) :
                    /\ Reranked(k, i).hits[p].rank = Original(k, i).hits[p].rank
                    /\ Reranked(k, i).hits[p].score = Original(k, i).hits[p].score

\* A run has returned with the payloads reordered while every hit carries
\* rank and score.
C8_Witness ==
    /\ runs[1].pc = "done"
    /\ HasRankAndScore(Original(1, 1).hits)
    /\ \E p \in 1..Len(Original(1, 1).hits) :
           Reranked(1, 1).hits[p].docid # Original(1, 1).hits[p].docid

Windows(calls) == [j \in 1..Len(calls) |-> <<calls[j].rank_start, calls[j].rank_end>>]

Covered(calls, p) ==
    \E j \in 1..Len(calls) : calls[j].rank_start <= p /\ p < calls[j].rank_end

\* C2: with step <= window_size, a run that returns has processed at least
\* one window, its last window starts at rank_start, and its windows cover
\* every position of [rank_start, rank_end).
C2_WindowCoverage ==
    \A k \in 1..Len(runs) :
        (runs[k].pc = "done" /\ args.step <= args.window_size) =>
            /\ runs[k].calls # <<>>
            /\ runs[k].calls[Len(runs[k].calls)].rank_start = args.rank_start
            /\ \A p \in args.rank_start..(args.rank_end - 1) : Covered(runs[k].calls, p)

\* The i-th window (i = 0, 1, ...) of the claimed sequence.
WindowAt(i) ==
    <<Max(args.rank_end - args.window_size - i * args.step, args.rank_start),
      args.rank_end - i * args.step>>

\* C3: the windows are processed back to front, the i-th processed window is
\* WindowAt(i), no window is processed after one that starts at rank_start
\* (the loop is over once such a window has been processed), no window is
\* processed twice or starts below rank_start, and for window_size=20,
\* step=10, rank_start=0, rank_end=100 a run that returns has processed
\* exactly (80,100), (70,90), ..., (0,20).
C3_WindowSequence ==
    \A k \in 1..Len(runs) : Started(k) =>
        LET c == runs[k].calls
        IN  /\ \A j \in 1..Len(c) : Windows(c)[j] = WindowAt(j - 1)
            /\ \A j \in 1..(Len(c) - 1) :
                   /\ c[j].rank_start > args.rank_start
                   /\ c[j + 1].rank_end < c[j].rank_end
            /\ (c # <<>> /\ c[Len(c)].rank_start = args.rank_start
                    /\ runs[k].pc = "loop")
                   => ~LoopCond(runs[k].start_pos, runs[k].end_pos,
                                args.rank_start, args.step)
            /\ \A j1, j2 \in 1..Len(c) : j1 # j2 => c[j1] # c[j2]
            /\ \A j \in 1..Len(c) : c[j].rank_start >= args.rank_start
            /\ (args = ExampleArgs /\ runs[k].pc = "done")
                   => Windows(c) = [j \in 1..9 |-> <<90 - 10 * j, 110 - 10 * j>>]

\* The run on window_size=20, step=10, rank_start=0, rank_end=100 has
\* returned after nine windows.
C3_Witness ==
    /\ args = ExampleArgs
    /\ runs[1].pc = "done"
    /\ Len(runs[1].calls) = 9
    /\ runs[1].calls[9].rank_start = 0

\* C4: when sliding_windows_batched has returned, every oracle call it made
\* was made once for the whole batch at one (start, end), recorded in every
\* ranking's trace; and for each ranking of the batch on which sliding_windows
\* alone has returned, under the same oracle answers, the two runs processed
\* the same sequence of (start, end) pairs and ended with the same hits and
\* the same trace.
C4_BatchSingleEquivalence ==
    \A b \in 1..Len(runs) :
        (runs[b].entry = "sliding_windows_batched" /\ runs[b].pc = "done") =>
            \A i \in 1..Len(runs[b].rerank) :
                /\ LET t == Reranked(b, i).ranking_exec_summary.list
                       base == Len(t) - Len(runs[b].calls)
                   IN  \A j \in 1..Len(runs[b].calls) :
                           /\ t[base + j].prompt.rank_start = runs[b].calls[j].rank_start
                           /\ t[base + j].prompt.rank_end = runs[b].calls[j].rank_end
                /\ \A k \in 1..Len(runs) :
                       (/\ runs[k].entry = "sliding_windows"
                        /\ runs[k].pc = "done"
                        /\ runs[k].retrieved[1] = runs[b].retrieved[i]) =>
                           /\ Windows(runs[k].calls) = Windows(runs[b].calls)
                           /\ Reranked(k, 1) = Reranked(b, i)

\* The batched run and the two single runs have returned after at least two
\* windows, and both rankings were reordered, differently.
C4_Witness ==
    /\ \A k \in 1..3 : runs[k].pc = "done"
    /\ Len(runs[1].calls) >= 2
    /\ Len(Original(1, 1).hits) # Len(Original(1, 2).hits)
    /\ Reranked(1, 1).hits # Original(1, 1).hits
    /\ Reranked(1, 2).hits # Original(1, 2).hits
    /\ oracle[1][1] # oracle[2][1]

\* C5: the objects the caller passed in hold, in every state (while a run is
\* in its loop, after it returned, after it was aborted), the value they had
\* before the calls.
C5_CallerInputUnchanged ==
    \A r \in 1..Len(input0) : heap[r] = input0[r]

\* The batched run has returned with a reordered copy and a longer trace,
\* and a single run was aborted by a failing oracle after it had reordered
\* its copy.
C5_Witness ==
    /\ runs[1].entry = "sliding_windows_batched"
    /\ runs[1].pc = "done"
    /\ Reranked(1, 1).hits # Original(1, 1).hits
    /\ Reranked(1, 2).ranking_exec_summary # Original(1, 2).ranking_exec_summary
    /\ runs[2].pc = "failed"
    /\ runs[2].calls # <<>>
    /\ Reranked(2, 1).hits # Original(2, 1).hits

IsPrefix(s, t) == Len(s) <= Len(t) /\ SubSeq(t, 1, Len(s)) = s

\* The trace of ranking i of run k is the input trace followed by one entry
\* per window processed, in order, each holding the prompt of its window,
\* the oracle's raw answer and the two token counts.
TraceMatchesWindows(k, i) ==
    LET t    == Reranked(k, i).ranking_exec_summary
        t0   == Original(k, i).ranking_exec_summary
        c    == runs[k].calls
        r    == runs[k].retrieved[i]
        base == Len(t0.list)
    IN  /\ (c = <<>> => t = t0)
        /\ (c # <<>> => ~t.none)
        /\ Len(t.list) = base + Len(c)
        /\ SubSeq(t.list, 1, base) = t0.list
        /\ \A j \in 1..Len(c) :
               /\ t.list[base + j].prompt.rank_start = c[j].rank_start
               /\ t.list[base + j].prompt.rank_end = c[j].rank_end
               /\ t.list[base + j].input_token_count
                      = Len(t.list[base + j].prompt.docs)
               /\ t.list[base + j].response = oracle[r][j]
               /\ t.list[base + j].output_token_count = Len(oracle[r][j])

\* C6: in every state of a run that has not been aborted, each ranking's
\* trace is the input trace followed by exactly one entry per processed
\* window, in processing order; and no step changes or removes an entry of
\* any object's trace.
C6_TraceAppendOnly ==
    /\ [](\A k \in 1..Len(runs) : Alive(k) =>
              \A i \in 1..Len(runs[k].rerank) : TraceMatchesWindows(k, i))
    /\ [][\A ref \in 1..Len(heap) :
              IsPrefix(heap[ref].ranking_exec_summary.list,
                       heap'[ref].ranking_exec_summary.list)]_vars

\* The batched run has returned after at least two windows on a ranking that
\* came with a trace entry, and a single run has returned too.
C6_Witness ==
    /\ runs[1].entry = "sliding_windows_batched"
    /\ runs[1].pc = "done"
    /\ Len(runs[1].calls) >= 2
    /\ Original(1, 2).ranking_exec_summary.list # <<>>
    /\ runs[2].pc = "done"
    /\ Len(runs[2].calls) >= 2

\* The reference construction of the merge order, by positions: a named
\* local index (0-based, in range) comes at the number of in-range indices
\* named for the first time before it, an unnamed one after all the named
\* ones and after the unnamed ones smaller than it.
NamedAt(indices, a) == {i \in 1..Len(indices) : indices[i] - 1 = a}

FirstNamedAt(indices, a) ==
    CHOOSE i \in NamedAt(indices, a) : \A i2 \in NamedAt(indices, a) : i <= i2

RefPosition(indices, n, a) ==
    LET named == {b \in 0..(n - 1) : NamedAt(indices, b) # {}}
    IN  IF a \in named
        THEN Cardinality({b \in named :
                             FirstNamedAt(indices, b) < FirstNamedAt(indices, a)})
        ELSE Cardinality(named)
             + Cardinality({b \in (0..(n - 1)) \ named : b < a})

Payloads(hits) == [p \in 1..Len(hits) |-> Payload(hits[p])]

\* Run k has just processed a window without being aborted.
WindowProcessed(k) ==
    /\ Len(runs'[k].calls) = Len(runs[k].calls) + 1
    /\ runs'[k].pc # "failed"

\* C7: every window a run processes leaves the payloads of the slice in the
\* reference order of the parsed indices; an empty text leaves the slice as
\* it was, [2] > [2] > [1] on three hits yields the hits of local indices
\* 1, 0, 2 and [5] > [1] on three hits those of 0, 1, 2.
C7_MergeOrderIsReference ==
    [][\A k \in 1..Len(runs) : WindowProcessed(k) =>
          LET w      == Len(runs'[k].calls)
              c      == runs'[k].calls[w]
              text   == oracle'[runs[k].retrieved[1]][w]
              before == Slice(heap[runs[k].rerank[1]].hits, c.rank_start, c.rank_end)
              after  == Slice(heap'[runs[k].rerank[1]].hits, c.rank_start, c.rank_end)
              n      == Len(before)
              idx    == ParsedIndices(text, args.use_alpha, rerank_type)
          IN  /\ Len(after) = n
              /\ \A a \in 0..(n - 1) :
                     Payload(after[RefPosition(idx, n, a) + 1]) = Payload(before[a + 1])
              /\ text = <<>> => after = before
              /\ (n = 3 /\ ~args.use_alpha /\ text = RankedList(<<2, 2, 1>>))
                     => Payloads(after)
                            = Payloads(<<before[2], before[1], before[3]>>)
              /\ (n = 3 /\ ~args.use_alpha /\ text = RankedList(<<5, 1>>))
                     => Payloads(after) = Payloads(before)
      ]_vars

\* The first window, of three hits with distinct payloads, was answered
\* [2] > [2] > [1] and now holds the hits of local indices 1, 0, 2.
C7_Witness ==
    /\ Alive(1)
    /\ Len(runs[1].calls) = 1
    /\ runs[1].calls[1].rank_end - runs[1].calls[1].rank_start = 3
    /\ ~args.use_alpha
    /\ oracle[1][1] = RankedList(<<2, 2, 1>>)
    /\ LET s == runs[1].calls[1].rank_start
           was == Original(1, 1).hits
           now == Reranked(1, 1).hits
       IN  /\ Len(was) >= s + 3
           /\ was[s + 1].docid # was[s + 2].docid
           /\ <<now[s + 1].docid, now[s + 2].docid, now[s + 3].docid>>
                  = <<was[s + 2].docid, was[s + 1].docid, was[s + 3].docid>>

\* C9: in reasoning mode, a window whose oracle text the parser does not
\* match (matched = false) leaves the hits in their order, and the run goes
\* on to the next window.
C9_ParseFailureIsIdentity ==
    [][\A k \in 1..Len(runs) :
          (/\ Len(runs'[k].calls) = Len(runs[k].calls) + 1
           /\ rerank_type = "code_reasoning"
           /\ ~parse_reasoning_permutation(
                   oracle'[runs[k].retrieved[1]][Len(runs'[k].calls)]).matched)
          => /\ heap'[runs[k].rerank[1]].hits = heap[runs[k].rerank[1]].hits
             /\ runs'[k].pc = "loop"
      ]_vars

\* C10: sliding_windows_batched never calls the oracle with a number of
\* prompts that differs from the number of rankings of the batch (the step
\* fails before the call, so no such call is ever made).
C10_MisalignedBatchFailsFast ==
    \A k \in 1..Len(runs) :
        runs[k].entry = "sliding_windows_batched" =>
            \A j \in 1..Len(runs[k].calls) :
                runs[k].calls[j].prompts = Len(runs[k].retrieved)

\* C11: once get_ranking_cost_upperbound has returned and sliding_windows,
\* called with the same rank_start < rank_end, window_size >= 1 and
\* step >= 1, has returned too, the number of windows the estimate used,
\* (rank_end - rank_start - window_size) / step + 1 as an exact quotient,
\* equals the number of windows sliding_windows processed; for
\* rank_start=0, rank_end=100, window_size=20, step=10 both are 9.
C11_WindowCountMatchesScheduler ==
    (runs[1].pc = "done" /\ runs[2].pc = "done") =>
        /\ EqualsInt(runs[1].returned.num_promt, Len(runs[2].calls))
        /\ args = ExampleArgs => Len(runs[2].calls) = 9
=============================================================================
